---------------------------- MODULE Spec2Model ----------------------------
(***************************************************************************)
(* Statement line-grammar parsers of app/api/parsers: each script reads    *)
(* the text lines of one statement and appends transaction records to a    *)
(* batch, which it prints as JSON.                                         *)
(*                                                                         *)
(* Text representation.  A string is the sequence of its pieces between    *)
(* single spaces (Python's s.split(" ")): "A  B" is <<"A", "", "B">> and   *)
(* the empty string is <<"">>.  Joining with a single space is then        *)
(* concatenation.  A piece (token) is an atom; what the regular            *)
(* expressions and float() see of its characters is given by the lexical   *)
(* tables below.  Amounts are integer cents.  A date string YYYY-MM-DD is  *)
(* the triple <<Y, M, D>> of its zero-padded fields; "" is << >>.          *)
(***************************************************************************)
EXTENDS Integers, Sequences, FiniteSets, TLC

VARIABLES
    lines,              \* the document: full_text.splitlines()
    i,                  \* 1-based index of the line the loop is at
    pc,                 \* control location of the script
    transactions,       \* the batch built so far
    description_parts,  \* credit-card parser: description fragments so far
    parsed_date,        \* credit-card parser: date of the open operative line
    op,                 \* credit-card parser: index of the open operative line
    roles,              \* credit-card parser: history of <<line, role>> uses
    outcome,            \* "running", "ok" (exit 0) or "error" (exit 1)
    output              \* what was printed on standard output

\* The state of the credit-card parser's continuation loop.
ccvars == <<description_parts, parsed_date, op, roles>>

vars == <<lines, i, pc, transactions, ccvars, outcome, output>>

\* Longest document, in lines.
MaxLines == 3

(***************************************************************************)
(* Lexical tables: the characters of each token of the input universe.     *)
(***************************************************************************)

\* Tokens made of digits only.
DigitTokens ==
    {"0", "5", "9", "12", "30", "31", "99", "1234", "2023", "2024"}

\* Tokens made of upper-case letters only.
UpperTokens ==
    {"CR", "DR", "SHOP", "SALARY", "OPENING", "CLOSING", "BALANCE", "NOTE",
     "VOUCHER", "CRED"}

\* Tokens made of letters, at least one of them lower-case.
MixedAlphaTokens ==
    {"Jan", "Feb", "Apr", "Xyz", "Deposit", "Refund", "Coffee", "January",
     "February", "April", "Foo"}

\* Tokens made of digits, commas and dots, with at least one comma or dot.
PunctNumTokens ==
    {"5.00", "90.00", "0.00", "500.00", "1,000.00", "1.2.3", ","}

\* Date of a year: days in each month.
IsLeap(y) == (y % 4 = 0 /\ y % 100 # 0) \/ y % 400 = 0

DaysInMonth(y, m) ==
    CASE m = 2 -> IF IsLeap(y) THEN 29 ELSE 28
      [] m \in {4, 6, 9, 11} -> 30
      [] OTHER -> 31

\* datetime.strptime accepts the fields: month 1..12, day 1..length of month.
ValidDate(y, m, d) == m \in 1..12 /\ d \in 1..DaysInMonth(y, m)

\* int() of a digits-only token.
IntVal(t) ==
    CASE t = "0" -> 0 [] t = "5" -> 5 [] t = "9" -> 9 [] t = "12" -> 12
      [] t = "30" -> 30 [] t = "31" -> 31 [] t = "99" -> 99
      [] t = "1234" -> 1234 [] t = "2023" -> 2023 [] t = "2024" -> 2024

\* float(t.replace(",", "")) raises ValueError on these tokens.
FloatFails(t) == t \in {"1.2.3", ","}

\* float(t.replace(",", "")) in cents, for a token it accepts.
FloatCents(t) ==
    CASE t = "5.00" -> 500 [] t = "90.00" -> 9000 [] t = "0.00" -> 0
      [] t = "500.00" -> 50000 [] t = "1,000.00" -> 100000
      [] t = "234.56" -> 23456
      [] t \in DigitTokens -> 100 * IntVal(t)

(***************************************************************************)
(* String helpers on token sequences.                                      *)
(***************************************************************************)

RECURSIVE LStrip(_)
LStrip(s) == IF Len(s) > 1 /\ s[1] = "" THEN LStrip(Tail(s)) ELSE s

RECURSIVE RStrip(_)
RStrip(s) ==
    IF Len(s) > 1 /\ s[Len(s)] = "" THEN RStrip(SubSeq(s, 1, Len(s) - 1))
    ELSE s

\* str.strip(): leading and trailing spaces removed.
Strip(s) == RStrip(LStrip(s))

\* Indices of the non-empty tokens of s, in order.
TokPos(s) ==
    SelectSeq([k \in 1..Len(s) |-> k], LAMBDA k : s[k] # "")

\* The empty string.
EmptyStr == <<"">>

\* s[a..b] as a string of its own ("" when the range is empty).
Slice(s, a, b) == IF a > b THEN EmptyStr ELSE SubSeq(s, a, b)


(***************************************************************************)
(* A transaction record.  id stands for the fresh uuid4: the position of   *)
(* the record in the batch.  src (index of the operative line), last       *)
(* (index of the last line the record was assembled from) and via (the     *)
(* branch of the script that appended it) are history fields that the      *)
(* scripts do not store; they let properties refer to the origin of a      *)
(* record.                                                                 *)
(***************************************************************************)
Txn(batch, date, description, amount, src, last, via) ==
    [id |-> Len(batch) + 1, date |-> date, description |-> description,
     amount |-> amount, src |-> src, last |-> last, via |-> via]

(***************************************************************************)
(* local.py: Westpac statement parser with a primary and a fallback        *)
(* pattern.                                                                *)
(***************************************************************************)

\* year_fallback = "2023"
year_fallback == 2023

\* \d{1,2}
IsDay12(t) == t \in DigitTokens /\ t \notin {"1234", "2023", "2024"}

\* [A-Za-z]{3}
IsAlpha3(t) == t \in {"Jan", "Feb", "Apr", "Xyz", "Foo"}

\* [A-Z]{2}
IsUpper2(t) == t \in {"CR", "DR"}

\* [\d,.]+
IsNumTok(t) == t \in DigitTokens \cup PunctNumTokens

\* month_map.get(name, "01")
month_map(t) ==
    CASE t = "Jan" -> 1 [] t = "Feb" -> 2 [] t = "Apr" -> 4 [] OTHER -> 1

\* Number of tokens at the end of N[from..Len(N)] that are all [\d,.]+.
RECURSIVE TrailingNums(_, _)
TrailingNums(N, from) ==
    IF Len(N) >= from /\ IsNumTok(N[Len(N)])
    THEN 1 + TrailingNums(SubSeq(N, 1, Len(N) - 1), from)
    ELSE 0

NoMatch == [ok |-> FALSE]

(***************************************************************************)
(* date_pattern.match(line.strip()): day, month, type, lazy description,   *)
(* then up to three numeric groups.  The lazy description takes the fewest *)
(* tokens that leave one to three numeric tokens to the end of the line;   *)
(* it is empty only when the type is followed by two or more spaces and a  *)
(* single numeric token.                                                   *)
(***************************************************************************)
PrimaryMatch(line) ==
    LET s == Strip(line)
        P == TokPos(s)
        N == [k \in 1..Len(P) |-> s[P[k]]]
        n == Len(N)
        T == TrailingNums(N, 5)
        c == IF T > 3 THEN 3 ELSE T
    IN  IF n < 4 \/ P[1] # 1 THEN NoMatch
        ELSE IF ~(IsDay12(N[1]) /\ IsAlpha3(N[2]) /\ IsUpper2(N[3]))
        THEN NoMatch
        ELSE IF T >= 1
        THEN [ok |-> TRUE, day |-> N[1], month |-> N[2], type |-> N[3],
              description |-> Slice(s, P[4], P[n - c]),
              nums |-> SubSeq(N, n - c + 1, n)]
        ELSE IF n = 4 /\ IsNumTok(N[4]) /\ P[4] > P[3] + 1
        THEN [ok |-> TRUE, day |-> N[1], month |-> N[2], type |-> N[3],
              description |-> EmptyStr, nums |-> <<N[4]>>]
        ELSE NoMatch

(***************************************************************************)
(* fallback_pattern.match(line.strip()): day, month, lazy description and  *)
(* one numeric token that ends the line.                                   *)
(***************************************************************************)
FallbackMatch(line) ==
    LET s == Strip(line)
        P == TokPos(s)
        N == [k \in 1..Len(P) |-> s[P[k]]]
        n == Len(N)
    IN  IF n < 3 \/ P[1] # 1 THEN NoMatch
        ELSE IF ~(IsDay12(N[1]) /\ IsAlpha3(N[2]) /\ IsNumTok(N[n]))
        THEN NoMatch
        ELSE IF n >= 4
        THEN [ok |-> TRUE, day |-> N[1], month |-> N[2],
              description |-> Slice(s, P[3], P[n - 1]), nums |-> <<N[n]>>]
        ELSE IF P[3] > P[2] + 1
        THEN [ok |-> TRUE, day |-> N[1], month |-> N[2],
              description |-> EmptyStr, nums |-> <<N[n]>>]
        ELSE NoMatch

\* The group of money_out / money_in (None when the group did not match).
Group(nums, k) == IF Len(nums) >= k THEN nums[k] ELSE "None"

\* Lines 65-71: the date string and its strptime check.
LocalDate(m) == <<year_fallback, month_map(m.month), IntVal(m.day)>>

LocalDateOk(m) == ValidDate(year_fallback, month_map(m.month), IntVal(m.day))

(***************************************************************************)
(* Lines 73-82: the amount of a primary match.  "skip" is the continue of  *)
(* line 82, "raise" the ValueError of float().                             *)
(***************************************************************************)
PrimaryAmount(m) ==
    LET money_out == Group(m.nums, 1)
        money_in == Group(m.nums, 2)
    IN  IF money_out # "None"
        THEN IF FloatFails(money_out) THEN [r |-> "raise"]
             ELSE [r |-> "ok", amount |-> -FloatCents(money_out)]
        ELSE IF money_in # "None"
        THEN IF FloatFails(money_in) THEN [r |-> "raise"]
             ELSE [r |-> "ok", amount |-> FloatCents(money_in)]
        ELSE [r |-> "skip"]

\* The lines the model's local.py documents are made of.
LocalLines ==
    { <<"12", "Jan", "CR", "SALARY", "500.00">>,
      <<"12", "Jan", "DR", "SHOP", "5.00", "90.00">>,
      <<"31", "Feb", "DR", "SHOP", "5.00">>,
      <<"30", "Apr", "DR", "", "5.00">>,
      <<"12", "Xyz", "SHOP", "5.00">>,
      <<"31", "Apr", "", "90.00">>,
      <<"12", "Jan", "DR", "SHOP", "1.2.3">>,
      <<"SHOP", "NOTE">> }

Docs(L) == UNION { [1..n -> L] : n \in 0..MaxLines }

InitCommon ==
    /\ i = 1
    /\ transactions = << >>
    /\ description_parts = << >>
    /\ parsed_date = << >>
    /\ op = 0
    /\ roles = << >>
    /\ outcome = "running"
    /\ output = << >>

InitLocal ==
    /\ lines \in Docs(LocalLines)
    /\ pc = "primary"
    /\ InitCommon

\* An uncaught exception: the interpreter prints a traceback and exits 1;
\* nothing was printed on standard output.
Crash ==
    /\ pc' = "done"
    /\ outcome' = "error"
    /\ UNCHANGED <<lines, i, transactions, ccvars, output>>

\* The body of the for loop ran to its end or hit continue.
NextLine(batch) ==
    /\ i' = i + 1
    /\ transactions' = batch
    /\ UNCHANGED <<lines, pc, ccvars, outcome,
                   output>>

\* Lines 62-89: one iteration of the primary loop.
LocalPrimaryLine ==
    /\ pc = "primary"
    /\ i <= Len(lines)
    /\ LET m == PrimaryMatch(lines[i])
       IN  IF ~m.ok THEN NextLine(transactions)
           ELSE IF ~LocalDateOk(m) THEN NextLine(transactions)
           ELSE LET a == PrimaryAmount(m)
                IN  CASE a.r = "raise" -> Crash
                      [] a.r = "skip" -> NextLine(transactions)
                      [] OTHER ->
                           NextLine(Append(transactions,
                               Txn(transactions, LocalDate(m),
                                   Strip(m.description), a.amount, i, i,
                                   "primary")))

\* Mutant of FallbackNeeded: the fallback pass runs whatever the primary
\* pass appended.
FallbackAlways(batch) == TRUE

\* Line 92, taken when the primary loop is over.
FallbackNeeded(batch) == batch = << >>

LocalPrimaryEnd ==
    /\ pc = "primary"
    /\ i > Len(lines)
    /\ pc' = IF FallbackNeeded(transactions) THEN "fallback" ELSE "output"
    /\ i' = 1
    /\ UNCHANGED <<lines, transactions, ccvars,
                   outcome, output>>

\* Lines 93-112: one iteration of the fallback loop.
LocalFallbackLine ==
    /\ pc = "fallback"
    /\ i <= Len(lines)
    /\ LET m == FallbackMatch(lines[i])
       IN  IF ~m.ok THEN NextLine(transactions)
           ELSE IF ~LocalDateOk(m) THEN NextLine(transactions)
           ELSE IF FloatFails(m.nums[1]) THEN Crash
           ELSE NextLine(Append(transactions,
                    Txn(transactions, LocalDate(m), Strip(m.description),
                        -FloatCents(m.nums[1]), i, i, "fallback")))

LocalFallbackEnd ==
    /\ pc = "fallback"
    /\ i > Len(lines)
    /\ pc' = "output"
    /\ UNCHANGED <<lines, i, transactions, ccvars, outcome, output>>

\* print(json.dumps(transactions)) and exit 0.
Output ==
    /\ pc = "output"
    /\ pc' = "done"
    /\ outcome' = "ok"
    /\ output' = transactions
    /\ UNCHANGED <<lines, i, transactions, ccvars>>

NextLocal ==
    \/ LocalPrimaryLine
    \/ LocalPrimaryEnd
    \/ LocalFallbackLine
    \/ LocalFallbackEnd
    \/ Output

SpecLocal == InitLocal /\ [][NextLocal]_vars


(***************************************************************************)
(* parse_pdf_anz.py: one pattern, searched over the whole text.            *)
(***************************************************************************)

\* \d{2}/\d{2}/\d{4}: the tokens of that shape, with their fields <<Y, M, D>>.
DateTokens == {"01/02/2024", "31/02/2024"}

DateFields(t) ==
    CASE t = "01/02/2024" -> <<2024, 2, 1>>
      [] t = "31/02/2024" -> <<2024, 2, 31>>

\* \d{4} followed by white space
IsDigits4(t) == t \in {"1234", "2023", "2024"}

\* \$?[\d,]+\.\d{2}: the tokens of that shape (group: without the $).
IsMoney(t) == t \in {"5.00", "90.00", "0.00", "500.00", "1,000.00", "$5.00"}

MoneyGroup(t) == IF t = "$5.00" THEN "5.00" ELSE t

\* full_text split at every white-space character: the lines one after the
\* other (a line break separates like one space), and the line of each piece.
RECURSIVE Flat(_)
Flat(ls) == IF ls = << >> THEN << >> ELSE Head(ls) \o Flat(Tail(ls))

RECURSIVE FlatLn(_, _)
FlatLn(ls, l) ==
    IF ls = << >> THEN << >>
    ELSE [k \in 1..Len(Head(ls)) |-> l] \o FlatLn(Tail(ls), l + 1)

\* The text of line l between slots a and b of the flattened text.
FlatSlice(F, a, b) == IF a > b THEN EmptyStr ELSE SubSeq(F, a, b)

(***************************************************************************)
(* The tail of the pattern at token q: amount, optional CR, balance.       *)
(***************************************************************************)
AnzTail(N, q) ==
    IF q + 1 > Len(N) \/ ~IsMoney(N[q]) THEN NoMatch
    ELSE IF N[q + 1] = "CR"
    THEN IF q + 2 <= Len(N) /\ IsMoney(N[q + 2])
         THEN [ok |-> TRUE, credit_label |-> "CR", end |-> q + 2]
         ELSE NoMatch
    ELSE IF IsMoney(N[q + 1])
    THEN [ok |-> TRUE, credit_label |-> "None", end |-> q + 1]
    ELSE NoMatch

\* The lazy description N[a..q-1] (one token at least, all on one line):
\* the least q at which the tail matches.
RECURSIVE AnzDescEnd(_, _, _, _, _)
AnzDescEnd(N, P, Ln, a, q) ==
    IF q > Len(N) \/ Ln[P[q - 1]] # Ln[P[a]] THEN 0
    ELSE IF AnzTail(N, q).ok THEN q
    ELSE AnzDescEnd(N, P, Ln, a, q + 1)

(***************************************************************************)
(* The pattern at token k of the text: two dates, a card number, the lazy  *)
(* description (empty only when two white-space characters or more         *)
(* separate card and amount), and the tail.                                *)
(***************************************************************************)
AnzMatchAt(F, Ln, k) ==
    LET P == TokPos(F)
        N == [j \in 1..Len(P) |-> F[P[j]]]
    IN  IF k + 4 > Len(N) THEN NoMatch
        ELSE IF ~(N[k] \in DateTokens /\ N[k + 1] \in DateTokens
                   /\ IsDigits4(N[k + 2]))
        THEN NoMatch
        ELSE LET q == AnzDescEnd(N, P, Ln, k + 3, k + 4)
             IN  IF q # 0
                 THEN [ok |-> TRUE, date_transaction |-> N[k + 1],
                       description |-> FlatSlice(F, P[k + 3], P[q - 1]),
                       amount |-> MoneyGroup(N[q]),
                       credit_label |-> AnzTail(N, q).credit_label,
                       start |-> k, end |-> AnzTail(N, q).end,
                       line |-> Ln[P[k]]]
                 ELSE IF AnzTail(N, k + 3).ok /\ P[k + 3] > P[k + 2] + 1
                 THEN [ok |-> TRUE, date_transaction |-> N[k + 1],
                       description |-> EmptyStr,
                       amount |-> MoneyGroup(N[k + 3]),
                       credit_label |-> AnzTail(N, k + 3).credit_label,
                       start |-> k, end |-> AnzTail(N, k + 3).end,
                       line |-> Ln[P[k]]]
                 ELSE NoMatch

\* pattern.finditer: the leftmost match that starts at token k or later.
RECURSIVE AnzSearch(_, _, _)
AnzSearch(F, Ln, k) ==
    IF k > Len(TokPos(F)) THEN NoMatch
    ELSE IF AnzMatchAt(F, Ln, k).ok THEN AnzMatchAt(F, Ln, k)
    ELSE AnzSearch(F, Ln, k + 1)

\* The next match of the finditer loop; i is the token the search resumes at.
AnzNext == AnzSearch(Flat(lines), FlatLn(lines, 1), i)

\* Line 50: signed_amount = amount if credit_label else -amount
AnzSigned(m) ==
    IF m.credit_label # "None" THEN FloatCents(m.amount)
    ELSE -FloatCents(m.amount)

AnzLines ==
    { <<"01/02/2024", "01/02/2024", "1234", "Coffee", "SHOP", "5.00", "90.00">>,
      <<"01/02/2024", "01/02/2024", "1234", "SALARY", "500.00", "CR", "90.00">>,
      <<"01/02/2024", "31/02/2024", "1234", "SHOP", "5.00", "90.00">>,
      <<"01/02/2024", "01/02/2024", "1234", "SHOP", "0.00", "CR", "500.00">>,
      <<"01/02/2024", "01/02/2024", "1234", "", "$5.00", "90.00">>,
      <<"01/02/2024", "01/02/2024", "1234", "SHOP", "5.00">>,
      <<"90.00", "NOTE">>,
      <<"SHOP", "NOTE">> }

InitAnz ==
    /\ lines \in Docs(AnzLines)
    /\ pc = "scan"
    /\ InitCommon

\* Lines 41-57: one iteration of the finditer loop.
AnzMatch ==
    /\ pc = "scan"
    /\ AnzNext.ok
    /\ LET m == AnzNext
           d == DateFields(m.date_transaction)
       IN  /\ ValidDate(d[1], d[2], d[3])
           /\ transactions' = Append(transactions,
                  Txn(transactions, d, Strip(m.description), AnzSigned(m),
                      m.line, m.line, m.credit_label))
           /\ i' = m.end + 1
    /\ UNCHANGED <<lines, pc, ccvars, outcome,
                   output>>

\* except Exception: the message goes to stderr and the script exits 1.
Caught ==
    /\ pc' = "done"
    /\ outcome' = "error"
    /\ UNCHANGED <<lines, i, transactions, ccvars, output>>

\* Line 43: strptime raises ValueError inside the try block.
AnzDateError ==
    /\ pc = "scan"
    /\ AnzNext.ok
    /\ LET d == DateFields(AnzNext.date_transaction)
       IN  ~ValidDate(d[1], d[2], d[3])
    /\ Caught

\* finditer is exhausted.
AnzEnd ==
    /\ pc = "scan"
    /\ ~AnzNext.ok
    /\ pc' = "output"
    /\ UNCHANGED <<lines, i, transactions, ccvars, outcome, output>>

NextAnz ==
    \/ AnzMatch
    \/ AnzDateError
    \/ AnzEnd
    \/ Output

SpecAnz == InitAnz /\ [][NextAnz]_vars


(***************************************************************************)
(* parse_pdf_amex.py: operative line with an optional reference line.      *)
(***************************************************************************)

\* (January|...|December)(\d{1,2}) followed by white space: the tokens of
\* that shape, with month_map[month_name] and the day.
MonthDayTokens == {"May28", "February30", "February9"}

MonthDayFields(t) ==
    CASE t = "May28" -> [month |-> 5, day |-> 28]
      [] t = "February30" -> [month |-> 2, day |-> 30]
      [] t = "February9" -> [month |-> 2, day |-> 9]

\* \d+\.\d{2} as a whole token
IsPlainDecimal(t) == t \in {"5.00", "90.00", "0.00", "500.00"}

\* The statement year written into date_str (line 59).
amex_year == 2025

(***************************************************************************)
(* date_line_pattern.match(line): month and day glued, a lazy description  *)
(* of one character at least, and the amount that ends the line.  With no  *)
(* description token the description is one space, which needs three       *)
(* spaces between date and amount.                                         *)
(***************************************************************************)
AmexMatch(line) ==
    LET s == line
        P == TokPos(s)
        N == [k \in 1..Len(P) |-> s[P[k]]]
        n == Len(N)
    IN  IF n < 2 \/ P[1] # 1 THEN NoMatch
        ELSE IF ~(N[1] \in MonthDayTokens /\ IsPlainDecimal(N[n]))
        THEN NoMatch
        ELSE IF n >= 3
        THEN [ok |-> TRUE, date |-> N[1],
              description |-> Slice(s, P[2], P[n - 1]), amount |-> N[n]]
        ELSE IF P[2] >= P[1] + 3
        THEN [ok |-> TRUE, date |-> N[1], description |-> <<"", "">>,
              amount |-> N[n]]
        ELSE NoMatch

\* "Reference:" in next_line
HasReference(s) == \E k \in 1..Len(s) : s[k] = "Reference:"

\* Index of the first occurrence of tok in s[from..], or Len(s) + 1.
RECURSIVE FirstAt(_, _, _)
FirstAt(s, tok, from) ==
    IF from > Len(s) THEN Len(s) + 1
    ELSE IF s[from] = tok THEN from
    ELSE FirstAt(s, tok, from + 1)

\* next_line.split("Reference:")[1]: the text between the first occurrence
\* and the next one (or the end of the line).
SplitReference(s) ==
    LET a == FirstAt(s, "Reference:", 1)
        b == FirstAt(s, "Reference:", a + 1)
    IN  IF a = Len(s) THEN EmptyStr
        ELSE IF b > Len(s) THEN <<"">> \o SubSeq(s, a + 1, Len(s))
        ELSE <<"">> \o SubSeq(s, a + 1, b - 1) \o <<"">>

\* "Ref:" + t, for the tokens a reference starts with.
RefGlue(t) ==
    CASE t = "1234" -> "Ref:1234"
      [] t = "9" -> "Ref:9"

\* Lines 69-71: description + " Ref:" + reference_line, when not empty.
AmexDescription(description, reference_line) ==
    IF reference_line = EmptyStr THEN description
    ELSE description \o <<RefGlue(Head(reference_line))>>
                     \o Tail(reference_line)

\* Lines 62-67: the reference carried by the line after the operative one.
AmexReference(ls, k) ==
    IF k <= Len(ls) /\ HasReference(Strip(ls[k]))
    THEN Strip(SplitReference(Strip(ls[k])))
    ELSE EmptyStr

AmexLines ==
    { <<"May28", "SHOP", "5.00">>,
      <<"February30", "Coffee", "SHOP", "0.00">>,
      <<"Reference:", "1234">>,
      <<"Reference:">>,
      <<"May28", "", "", "5.00">>,
      <<"February9", "Reference:", "9", "5.00">>,
      <<"May28", "SHOP", "1,000.00">>,
      <<"", "SHOP", "NOTE", "">> }

InitAmex ==
    /\ lines \in Docs(AmexLines)
    /\ pc = "scan"
    /\ InitCommon

\* Mutant of AmexAfterOperative: the line peeked at is consumed.
AmexAfterOperativeSkip(k) == k + 2

\* Line 62: after an operative line at k the while loop goes on at k + 1,
\* the line that was peeked at.
AmexAfterOperative(k) == k + 1

\* Lines 53-78: the line at i matches the pattern.
AmexOperative ==
    /\ pc = "scan"
    /\ i <= Len(lines)
    /\ AmexMatch(Strip(lines[i])).ok
    /\ LET m == AmexMatch(Strip(lines[i]))
           f == MonthDayFields(m.date)
           amount == FloatCents(m.amount)
       IN  transactions' = Append(transactions,
               Txn(transactions, <<amex_year, f.month, f.day>>,
                   AmexDescription(Strip(m.description),
                                   AmexReference(lines, i + 1)),
                   -amount, i, i, "operative"))
    /\ i' = AmexAfterOperative(i)
    /\ UNCHANGED <<lines, pc, ccvars, outcome, output>>

\* Lines 80-81: the line at i does not match.
AmexSkip ==
    /\ pc = "scan"
    /\ i <= Len(lines)
    /\ ~AmexMatch(Strip(lines[i])).ok
    /\ i' = i + 1
    /\ UNCHANGED <<lines, pc, transactions, ccvars, outcome, output>>

\* The while loop is over.
ScanEnd ==
    /\ pc = "scan"
    /\ i > Len(lines)
    /\ pc' = "output"
    /\ UNCHANGED <<lines, i, transactions, ccvars, outcome, output>>

NextAmex ==
    \/ AmexOperative
    \/ AmexSkip
    \/ ScanEnd
    \/ Output

SpecAmex == InitAmex /\ [][NextAmex]_vars

(***************************************************************************)
(* parse_pdf_cba.py: balance-marker rows and dated lines.                  *)
(***************************************************************************)

\* [A-Za-z]+ followed by white space
IsAlphaWord(t) == t \in UpperTokens \cup MixedAlphaTokens

\* MONTH_MAP.get(month, '01')
MONTH_MAP(t) ==
    CASE t = "January" -> 1 [] t = "February" -> 2 [] t = "April" -> 4
      [] OTHER -> 1

\* date_pattern at the start of the line: day, month word, four-digit year.
CbaDateMatch(s) ==
    LET P == TokPos(s)
        N == [k \in 1..Len(P) |-> s[P[k]]]
    IN  IF Len(N) < 3 \/ P[1] # 1 THEN NoMatch
        ELSE IF IsDay12(N[1]) /\ IsAlphaWord(N[2]) /\ IsDigits4(N[3])
        THEN [ok |-> TRUE, day |-> N[1], month |-> N[2], year |-> N[3],
              end |-> P[3]]
        ELSE NoMatch

\* f"{year}-{MONTH_MAP.get(month, '01')}-{day.zfill(2)}"
CbaDateIso(m) == <<IntVal(m.year), MONTH_MAP(m.month), IntVal(m.day)>>

\* The text of s after slot k.
After(s, k) == <<"">> \o SubSeq(s, k + 1, Len(s))

\* The text of s before slot k.
Before(s, k) == SubSeq(s, 1, k - 1) \o <<"">>

\* amount_pattern.findall within one token:
\* -?\d{1,3}(?:,\d{3})*\.\d{2}
CbaAmountsIn(t) ==
    IF t \in {"5.00", "90.00", "0.00", "500.00", "1,000.00"} THEN <<t>>
    ELSE << >>

\* Slot of the last token of s that holds an amount, or 0.
RECURSIVE LastAmountSlot(_, _)
LastAmountSlot(s, k) ==
    IF k = 0 THEN 0
    ELSE IF CbaAmountsIn(s[k]) # << >> THEN k
    ELSE LastAmountSlot(s, k - 1)

\* "X Y" in line, for two tokens separated by one space.
HasPair(s, x, y) == \E k \in 1..(Len(s) - 1) : s[k] = x /\ s[k + 1] = y

HasToken(s, x) == \E k \in 1..Len(s) : s[k] = x

\* Line 40
IsBalanceRow(s) ==
    HasPair(s, "OPENING", "BALANCE") \/ HasPair(s, "CLOSING", "BALANCE")

\* Lines 41-55: the record of a balance-marker row.
CbaBalanceTxn(batch, s, k) ==
    Txn(batch,
        IF CbaDateMatch(s).ok THEN CbaDateIso(CbaDateMatch(s)) ELSE << >>,
        IF HasToken(s, "OPENING") THEN <<"OPENING", "BALANCE">>
        ELSE <<"CLOSING", "BALANCE">>,
        0, k, k, "balance")

\* Lines 66-70: the amount of a dated line (0 when it has no amount token).
CbaAmount(remaining) ==
    LET r == LastAmountSlot(remaining, Len(remaining))
    IN  IF r = 0 THEN 0
        ELSE FloatCents(CbaAmountsIn(remaining[r])[1])

\* Lines 72-76: the description of a dated line.
CbaDescription(remaining) ==
    LET r == LastAmountSlot(remaining, Len(remaining))
    IN  IF r = 0 THEN remaining ELSE Strip(Before(remaining, r))

\* Lines 59-83: the record of a dated line.
CbaDatedTxn(batch, s, k) ==
    LET m == CbaDateMatch(s)
        remaining == Strip(After(s, m.end))
    IN  Txn(batch, CbaDateIso(m), CbaDescription(remaining),
            -CbaAmount(remaining), k, k, "dated")

CbaLines ==
    { <<"12", "January", "2024", "SHOP", "5.00">>,
      <<"12", "January", "2024", "NOTE">>,
      <<"12", "April", "2024", "5.00">>,
      <<"99", "Foo", "2024", "Coffee", "SHOP", "1,000.00">>,
      <<"12", "January", "2024", "OPENING", "BALANCE", "500.00">>,
      <<"CLOSING", "BALANCE">>,
      <<"30", "February", "2023", "SHOP", "90.00">>,
      <<"", "SHOP", "NOTE">> }

InitCba ==
    /\ lines \in Docs(CbaLines)
    /\ pc = "scan"
    /\ InitCommon

\* Lines 36-83: one iteration of the loop over the lines.
CbaLine ==
    /\ pc = "scan"
    /\ i <= Len(lines)
    /\ LET s == Strip(lines[i])
       IN  IF IsBalanceRow(s)
           THEN NextLine(Append(transactions,
                                CbaBalanceTxn(transactions, s, i)))
           ELSE IF CbaDateMatch(s).ok
           THEN NextLine(Append(transactions,
                                CbaDatedTxn(transactions, s, i)))
           ELSE NextLine(transactions)

NextCba ==
    \/ CbaLine
    \/ ScanEnd
    \/ Output

SpecCba == InitCba /\ [][NextCba]_vars


(***************************************************************************)
(* parse_pdf_westpac_credit_card.py: operative line, description           *)
(* fragments, amounts line.                                                *)
(***************************************************************************)

\* \d{2}/\d{2}/\d{2} followed by white space: the tokens of that shape, with
\* the fields strptime("%d/%m/%y") reads (a two-digit year below 69 is 20yy).
ShortDateTokens == {"01/02/24", "31/02/24"}

ShortDateFields(t) ==
    CASE t = "01/02/24" -> <<2024, 2, 1>>
      [] t = "31/02/24" -> <<2024, 2, 31>>

\* date_pattern.match(line): the date and the rest of the line.
CcDateMatch(s) ==
    LET P == TokPos(s)
    IN  IF Len(P) < 2 \/ P[1] # 1 THEN NoMatch
        ELSE IF s[1] \in ShortDateTokens
        THEN [ok |-> TRUE, raw_date |-> s[1],
              rest |-> SubSeq(s, P[2], Len(s))]
        ELSE NoMatch

\* re.findall(r"\d{1,3}(?:,\d{3})*\.\d{2}", ...) within one token
CcAmountsIn(t) ==
    IF t \in {"5.00", "90.00", "0.00", "500.00", "1,000.00"} THEN <<t>>
    ELSE IF t = "1234.56" THEN <<"234.56">>
    ELSE << >>

\* re.findall over a line: the amounts of its tokens, in order.
RECURSIVE CcAmounts(_)
CcAmounts(s) ==
    IF s = << >> THEN << >> ELSE CcAmountsIn(Head(s)) \o CcAmounts(Tail(s))

\* Line 49: a line with two decimal tokens or more is the amounts line.
IsAmountsLine(s) == Len(CcAmounts(s)) >= 2

\* " ".join(description_parts)
RECURSIVE Join(_)
Join(parts) ==
    IF Len(parts) = 1 THEN parts[1]
    ELSE parts[1] \o Join(Tail(parts))

\* Line 67: "Deposit" in full_description or "Refund" in full_description
HasCreditWord(d) == HasToken(d, "Deposit") \/ HasToken(d, "Refund")

\* Mutant of CcSlots: the two-token line is unpacked as (_, amt), so the
\* amount is the second token.
CcSlotsSecond(amounts, full_description) ==
    IF Len(amounts) = 3
    THEN [debit |-> amounts[1], credit |-> amounts[2]]
    ELSE IF Len(amounts) = 2
    THEN IF HasToken(full_description, "Deposit")
            \/ HasToken(full_description, "Refund")
         THEN [debit |-> "", credit |-> amounts[2]]
         ELSE [debit |-> amounts[2], credit |-> ""]
    ELSE [debit |-> "", credit |-> ""]

(***************************************************************************)
(* Lines 59-79: debit and credit slots from the amounts ("" is an empty    *)
(* slot), and the signed amount; none when both slots are empty.           *)
(***************************************************************************)
CcSlots(amounts, full_description) ==
    IF Len(amounts) = 3
    THEN [debit |-> amounts[1], credit |-> amounts[2]]
    ELSE IF Len(amounts) = 2
    THEN IF HasCreditWord(full_description)
         THEN [debit |-> "", credit |-> amounts[1]]
         ELSE [debit |-> amounts[1], credit |-> ""]
    ELSE [debit |-> "", credit |-> ""]

\* Mutant of CcAmount: with both slots empty the record is appended all the
\* same, with amount 0.
CcAmountPartial(slots) ==
    IF slots.debit # "" THEN [emit |-> TRUE,
                              amount |-> -FloatCents(slots.debit)]
    ELSE IF slots.credit # "" THEN [emit |-> TRUE,
                                    amount |-> FloatCents(slots.credit)]
    ELSE [emit |-> TRUE, amount |-> 0]

CcAmount(slots) ==
    IF slots.debit # "" THEN [emit |-> TRUE,
                              amount |-> -FloatCents(slots.debit)]
    ELSE IF slots.credit # "" THEN [emit |-> TRUE,
                                    amount |-> FloatCents(slots.credit)]
    ELSE [emit |-> FALSE]

\* Lines 57-86: the batch after the assembly of the open transaction.
CcAssemble(batch, parts, date, amounts_line, o, a) ==
    LET full_description == Join(parts)
        amounts == CcAmounts(amounts_line)
        r == CcAmount(CcSlots(amounts, full_description))
    IN  IF r.emit
        THEN Append(batch, Txn(batch, date, full_description, r.amount, o, a,
                               IF Len(amounts) = 3 THEN "three" ELSE "two"))
        ELSE batch

CcLines ==
    { <<"01/02/24", "SHOP">>,
      <<"01/02/24", "Refund", "NOTE">>,
      <<"31/02/24", "SHOP">>,
      <<"Coffee", "NOTE">>,
      <<"Deposit", "5.00">>,
      <<"5.00", "90.00">>,
      <<"0.00", "5.00", "90.00">>,
      <<"01/02/24", "SHOP", "1,000.00", "90.00", "1234.56", "500.00">>,
      <<"">> }

InitCc ==
    /\ lines \in Docs(CcLines)
    /\ pc = "scan"
    /\ InitCommon

\* Lines 32-42: the line at i opens a transaction.
CcOperative ==
    /\ pc = "scan"
    /\ i <= Len(lines)
    /\ LET m == CcDateMatch(Strip(lines[i]))
       IN  /\ m.ok
           /\ LET d == ShortDateFields(m.raw_date)
              IN  /\ ValidDate(d[1], d[2], d[3])
                  /\ parsed_date' = d
           /\ description_parts' = <<Strip(m.rest)>>
    /\ op' = i
    /\ roles' = Append(roles, <<i, "operative">>)
    /\ pc' = "accum"
    /\ UNCHANGED <<lines, i, transactions, outcome, output>>

\* Lines 33, 37-39, 88: the line at i opens nothing (no match, or a date
\* that strptime rejects).
CcSkip ==
    /\ pc = "scan"
    /\ i <= Len(lines)
    /\ LET m == CcDateMatch(Strip(lines[i]))
       IN  m.ok =>
             LET d == ShortDateFields(m.raw_date)
             IN  ~ValidDate(d[1], d[2], d[3])
    /\ i' = i + 1
    /\ roles' = Append(roles, <<i, "skipped">>)
    /\ UNCHANGED <<lines, pc, transactions, description_parts, parsed_date,
                   op, outcome, output>>

\* Lines 44-55: the next line is a description fragment.
CcAccumulate ==
    /\ pc = "accum"
    /\ i + 1 <= Len(lines)
    /\ ~IsAmountsLine(Strip(lines[i + 1]))
    /\ description_parts' = Append(description_parts, Strip(lines[i + 1]))
    /\ i' = i + 1
    /\ roles' = Append(roles, <<i + 1, "fragment">>)
    /\ UNCHANGED <<lines, pc, transactions, parsed_date, op, outcome,
                   output>>

\* Lines 49-52, 57-88: the next line is the amounts line.
CcAmountsLine ==
    /\ pc = "accum"
    /\ i + 1 <= Len(lines)
    /\ IsAmountsLine(Strip(lines[i + 1]))
    /\ transactions' = CcAssemble(transactions, description_parts,
                                  parsed_date, Strip(lines[i + 1]), op, i + 1)
    /\ i' = i + 2
    /\ roles' = Append(roles, <<i + 1, "amounts">>)
    /\ pc' = "scan"
    /\ UNCHANGED <<lines, description_parts, parsed_date, op, outcome,
                   output>>

\* Lines 45-46, 57-79: the document ends before an amounts line.
CcBreak ==
    /\ pc = "accum"
    /\ i + 1 > Len(lines)
    /\ transactions' = CcAssemble(transactions, description_parts,
                                  parsed_date, EmptyStr, op, i)
    /\ i' = i + 1
    /\ pc' = "scan"
    /\ UNCHANGED <<lines, ccvars, outcome, output>>

NextCc ==
    \/ CcOperative
    \/ CcSkip
    \/ CcAccumulate
    \/ CcAmountsLine
    \/ CcBreak
    \/ ScanEnd
    \/ Output

SpecCc == InitCc /\ [][NextCc]_vars

\* The script is one sequential process: it takes its next step whenever it
\* has one.
FairSpecCc == SpecCc /\ WF_vars(NextCc)


(***************************************************************************)
(* Properties.                                                             *)
(***************************************************************************)

\* The records of a batch.
Records(batch) == { batch[a] : a \in 1..Len(batch) }

\* C1: in local.py the fallback pattern is applied only once the whole
\* primary pass has appended nothing, each line goes through it at most once,
\* and no batch holds a record of the primary pattern beside a record of the
\* fallback pattern.
C1_FallbackOnlyAfterEmptyPrimary ==
    /\ [](\A t, u \in Records(transactions) : t.via = u.via)
    /\ [](pc = "fallback" =>
            \A t \in Records(transactions) : t.via = "fallback")
    /\ [][pc' = "fallback" /\ pc # "fallback" =>
            pc = "primary" /\ i > Len(lines) /\ transactions = << >>]_vars
    /\ [][pc = "fallback" /\ pc' = "fallback" => i' = i + 1]_vars
    /\ [][(pc = "output" \/ pc = "done") =>
            (pc' # "primary" /\ pc' # "fallback")]_vars

\* C1 witness: the primary pattern matched a line, the pass still appended
\* nothing, and the fallback pass produced the batch that was printed.
C1_Witness ==
    /\ outcome = "ok"
    /\ output # << >>
    /\ \A t \in Records(output) : t.via = "fallback"
    /\ \E k \in 1..Len(lines) : PrimaryMatch(lines[k]).ok

\* C2: a record made from a line whose credit marker is CR (the type code of
\* local.py's primary pattern, the CR label of the ANZ pattern) has a positive
\* amount, and a record made from a line without credit evidence a negative
\* one.
C2_CreditMarkerDecidesSign ==
    \A t \in Records(transactions) :
        /\ t.via = "primary" =>
              IF PrimaryMatch(lines[t.src]).type = "CR" THEN t.amount > 0
              ELSE t.amount < 0
        /\ t.via = "CR" => t.amount > 0
        /\ t.via = "None" => t.amount < 0

\* C3: a line that matches the pattern but fails date validation, or whose
\* amount token is unusable, is skipped on its own: whatever the lines hold,
\* the run ends successfully and the records appended for the other lines are
\* the batch printed; no line makes the run end in the error outcome or the
\* batch be lost.
C3_BadLineSkippedAlone ==
    pc = "done" => (outcome = "ok" /\ output = transactions)

\* C4: every record carries a real calendar date: month 01..12 and a day
\* within that month of that year.
C4_DatesAreCalendarDates ==
    \A t \in Records(transactions) :
        Len(t.date) = 3 /\ ValidDate(t.date[1], t.date[2], t.date[3])

\* C5: in a CBA batch a record has amount 0 exactly when it is a
\* balance-marker row (its line holds OPENING BALANCE or CLOSING BALANCE and
\* its description is that label); the record of an ordinary dated line has a
\* negative amount.
C5_ZeroIffBalanceMarker ==
    \A t \in Records(transactions) :
        LET marker ==
              /\ IsBalanceRow(Strip(lines[t.src]))
              /\ t.description \in {<<"OPENING", "BALANCE">>,
                                    <<"CLOSING", "BALANCE">>}
        IN  /\ t.amount = 0 <=> marker
            /\ ~marker => t.amount < 0

\* C6: every record of every batch has a description that is not empty.
C6_DescriptionNeverBlank ==
    \A t \in Records(transactions) : t.description # EmptyStr


\* The history of line uses, as a set.
RoleSet == { roles[a] : a \in 1..Len(roles) }

\* Index of the first amounts line after line o, or 0.
RECURSIVE FirstAmountsAfter(_)
FirstAmountsAfter(o) ==
    IF o + 1 > Len(lines) THEN 0
    ELSE IF IsAmountsLine(Strip(lines[o + 1])) THEN o + 1
    ELSE FirstAmountsAfter(o + 1)

\* d0, d1, ..., dk joined by single spaces: the rest of operative line o and
\* the lines between o and a.
FragmentsJoined(o, a) ==
    CcDateMatch(Strip(lines[o])).rest
        \o Flat([k \in 1..(a - o - 1) |-> Strip(lines[o + k])])

\* C7: in the credit-card parser an operative line followed by k >= 0 lines
\* with fewer than two decimal tokens and then a line with exactly two decimal
\* tokens [a, b] yields exactly one record; its description is the fragments
\* joined in order by single spaces and its amount is -a, or +a when the
\* description contains Deposit or Refund; b plays no part.
C7_ContinuationMerge ==
    /\ \A t \in Records(transactions) :
          LET amounts == CcAmounts(Strip(lines[t.last]))
              d == FragmentsJoined(t.src, t.last)
          IN  Len(amounts) = 2 =>
                /\ t.src < t.last
                /\ t.last = FirstAmountsAfter(t.src)
                /\ t.description = d
                /\ t.amount = IF HasToken(d, "Deposit") \/ HasToken(d, "Refund")
                              THEN FloatCents(amounts[1])
                              ELSE -FloatCents(amounts[1])
    /\ pc = "done" =>
          \A o \in 1..Len(lines) :
              LET a == FirstAmountsAfter(o)
              IN  (/\ <<o, "operative">> \in RoleSet
                   /\ a # 0
                   /\ Len(CcAmounts(Strip(lines[a]))) = 2) =>
                      Cardinality({t \in Records(output) : t.src = o}) = 1

\* C7 witness: a record was assembled from an operative line, one fragment
\* line at least and a two-token amounts line, as a debit.
C7_Witness ==
    /\ pc = "done"
    /\ \E t \in Records(output) :
          /\ t.last >= t.src + 2
          /\ Len(CcAmounts(Strip(lines[t.last]))) = 2
          /\ t.amount < 0

\* C8: with three decimal tokens on the amounts line, read as debit, credit,
\* balance, the amount is the first non-empty of the debit and credit slots,
\* negative from the debit slot and positive from the credit slot, so that a
\* row whose debit slot holds nothing (0.00) yields the positive credit
\* amount; the balance token plays no part.
C8_ThreeTokensDebitCreditBalance ==
    \A t \in Records(transactions) :
        LET amounts == CcAmounts(Strip(lines[t.last]))
        IN  Len(amounts) = 3 =>
              t.amount = IF FloatCents(amounts[1]) # 0
                         THEN -FloatCents(amounts[1])
                         ELSE FloatCents(amounts[2])

AmexOperativeLines ==
    SelectSeq([k \in 1..Len(lines) |-> k],
              LAMBDA k : AmexMatch(Strip(lines[k])).ok)

\* The text after "Reference:" on line k ("" when there is no such line).
ReferenceText(k) ==
    IF k <= Len(lines) THEN Strip(SplitReference(Strip(lines[k])))
    ELSE EmptyStr

\* description + " Ref:" + text
WithRef(description, text) ==
    IF text = EmptyStr THEN description \o <<"Ref:">>
    ELSE description \o <<RefGlue(Head(text))>> \o Tail(text)

=============================================================================
